---- MODULE Spec2Model ----
(***************************************************************************)
(* The cart coordinator of the storefront (CartContext.tsx) together with   *)
(* the cart_items table it talks to (the schema and row level security      *)
(* policies kept in types/index.ts).                                        *)
(*                                                                          *)
(* Every persistence call is an await: the request is issued, the table     *)
(* answers it at some later step (ServerReply), and the caller's            *)
(* continuation runs at a still later step (Continue).  Several calls may   *)
(* be in flight at once; each keeps the `user` it closed over when called.  *)
(* Prices are held in cents.  A select returns its rows ordered by id.  The   *)
(* optional join `products` of a line is a sequence of at most one product. *)
(***************************************************************************)
EXTENDS Integers, Sequences, FiniteSets, TLC

Users == {"u1", "u2"}
NoUser == "none"
\* The identities that sign in on this client; the other users only own rows.
Clients == {"u1"}
Products == {"p1"}
NoProduct == "null"

\* Bounds of the model.
MaxId == 3
MaxQty == 2
MaxCalls == 2
MaxLines == 2

Calls == 1..MaxCalls

\* products.price of the first sample product, in cents.
Price == [p \in Products |-> 19999]

VARIABLES user, cartItems, loading, mounted, rows, nextId, tasks, ret

\* The Orders panel: its isOpen prop, its three pieces of state, its fetchOrders
\* calls in flight, and the orders and order_items tables.
VARIABLES isOpen, orders, orderItems, ordersLoading, orderCalls, orderRows, orderItemRows

cartVars == <<user, cartItems, loading, mounted, rows, nextId, tasks, ret>>

orderVars == <<isOpen, orders, orderItems, ordersLoading, orderCalls, orderRows, orderItemRows>>

vars == <<user, cartItems, loading, mounted, rows, nextId, tasks, ret,
          isOpen, orders, orderItems, ordersLoading, orderCalls, orderRows, orderItemRows>>

\* A select without ORDER BY answers with its rows in an order the persistence
\* layer picks: every sequence that lists each row of S once.
Orderings(S) ==
    {s \in [1..Cardinality(S) -> S] : \A r \in S : \E i \in 1..Cardinality(S) : s[i] = r}

----------------------------------------------------------------------------
(* The order history panel (Orders) and the tables it reads.                *)

\* Largest order id, the most items of one order, and the number of
\* fetchOrders runs that can overlap.
MaxOrders == 3
MaxOrderItems == 2
MaxOrderCalls == 2

OrderCalls == 1..MaxOrderCalls

\* An orders row; ids are handed out in creation order, so created_at is
\* ordered as id is.
OrderRow(id, uid) == [id |-> id, user_id |-> uid]

\* The k-th order_items row of an order: one unit at the captured price.
OrderItemRow(o, k) ==
    [id |-> (o.id - 1) * MaxOrderItems + k, order_id |-> o.id, product_id |-> "p1",
     quantity |-> 1, price |-> Price["p1"]]

\* The rows of S as a sequence, most recent first.
SortByCreatedDesc(S) ==
    CHOOSE s \in [1..Cardinality(S) -> S] :
        /\ \A i, j \in 1..Cardinality(S) : i < j => s[i].id > s[j].id
        /\ \A r \in S : \E i \in 1..Cardinality(S) : s[i] = r

\* select * from orders where user_id = uid order by created_at desc, under the
\* policy "Users can view own orders".
SelectOrders(table, auth, uid) ==
    SortByCreatedDesc({r \in table : r.user_id = uid /\ auth # NoUser /\ r.user_id = auth})

\* select *, products(*) from order_items where order_id = orderId, under the
\* policy that the order is the caller's own: the answers the layer can give.
SelectOrderItems(items, table, auth, orderId) ==
    LET own == {i \in items : /\ i.order_id = orderId
                              /\ \E o \in table : /\ o.id = i.order_id
                                                  /\ auth # NoUser
                                                  /\ o.user_id = auth}
        joined(i) == [id |-> i.id, order_id |-> i.order_id, product_id |-> i.product_id,
                      quantity |-> i.quantity, price |-> i.price,
                      products |-> <<[price |-> Price[i.product_id]]>>]
    IN  Orderings({joined(i) : i \in own})

\* A fetchOrders run: where it is suspended, the answer of the top-level read,
\* and the per-order item reads it fanned out.
OrderIdle ==
    [pc |-> "idle", stage |-> "none", cuser |-> NoUser, auth |-> NoUser,
     err |-> FALSE, data |-> <<>>, items |-> <<>>]

\* The panel before it was ever opened: useState([]), useState({}), useState(true).
OrdersUnopened ==
    /\ isOpen = FALSE
    /\ orders = <<>>
    /\ orderItems = <<>>
    /\ ordersLoading = TRUE
    /\ orderCalls = [c \in OrderCalls |-> OrderIdle]

\* fetchOrders() up to its first await, run for the identity u of the render
\* whose effect called it.
fetchOrders(c, u) ==
    /\ ordersLoading' = TRUE
    /\ orderCalls' = [orderCalls EXCEPT ![c] =
           [OrderIdle EXCEPT !.pc = "orders", !.stage = "sent", !.cuser = u, !.auth = u]]
    /\ UNCHANGED <<orders, orderItems>>

\* The run that the next fetchOrders takes: the lowest one not running.
FreeOrderCall(c) ==
    /\ orderCalls[c].pc = "idle"
    /\ \A d \in OrderCalls : d < c => orderCalls[d].pc # "idle"

\* The effect on [isOpen, user] with the values open and u of the new render:
\* if (isOpen && user) fetchOrders().
OrdersEffect(open, u) ==
    IF open /\ u # NoUser
    THEN \E c \in OrderCalls : FreeOrderCall(c) /\ fetchOrders(c, u)
    ELSE UNCHANGED <<orders, orderItems, ordersLoading, orderCalls>>

\* The panel is opened: the effect runs because isOpen changed.
OpenOrders ==
    /\ ~isOpen
    /\ isOpen' = TRUE
    /\ OrdersEffect(TRUE, user)
    /\ UNCHANGED <<orderRows, orderItemRows>>
    /\ UNCHANGED cartVars

\* onClose: the effect runs again and starts nothing; the state is kept.
CloseOrders ==
    /\ isOpen
    /\ isOpen' = FALSE
    /\ UNCHANGED <<orders, orderItems, ordersLoading, orderCalls, orderRows, orderItemRows>>
    /\ UNCHANGED cartVars

\* The persistence layer answers the top-level orders read.
OrdersReply(c, fail) ==
    /\ orderCalls[c].pc = "orders"
    /\ orderCalls[c].stage = "sent"
    /\ orderCalls' = [orderCalls EXCEPT
           ![c].stage = "replied",
           ![c].err = fail,
           ![c].data = IF fail THEN <<>>
                       ELSE SelectOrders(orderRows, orderCalls[c].auth, orderCalls[c].cuser)]
    /\ UNCHANGED <<isOpen, orders, orderItems, ordersLoading, orderRows, orderItemRows>>
    /\ UNCHANGED cartVars

\* The persistence layer answers the items read of one order; a failed read
\* gives no data, which fetchOrders takes as no items (data || []).
ItemsReply(c, o, fail) ==
    /\ orderCalls[c].pc = "items"
    /\ o \in DOMAIN orderCalls[c].items
    /\ orderCalls[c].items[o].stage = "sent"
    /\ \E d \in IF fail THEN {<<>>}
                ELSE SelectOrderItems(orderItemRows, orderRows, orderCalls[c].auth, o) :
           orderCalls' = [orderCalls EXCEPT ![c].items[o] = [stage |-> "replied", data |-> d]]
    /\ UNCHANGED <<isOpen, orders, orderItems, ordersLoading, orderRows, orderItemRows>>
    /\ UNCHANGED cartVars

\* fetchOrders() after the top-level read: with data it stores the orders and
\* fans out one items read per order; in either case it goes on to
\* setLoading(false), at once when there is nothing to await.
AfterOrders(c) ==
    LET r == orderCalls[c]
    IN  IF ~r.err
        THEN /\ orders' = r.data
             /\ orderCalls' = [orderCalls EXCEPT
                    ![c].pc = "items",
                    ![c].auth = user,
                    ![c].items = [o \in {r.data[i].id : i \in 1..Len(r.data)} |->
                                     [stage |-> "sent", data |-> <<>>]]]
             /\ UNCHANGED <<orderItems, ordersLoading>>
        ELSE /\ ordersLoading' = FALSE
             /\ orderCalls' = [orderCalls EXCEPT ![c] = OrderIdle]
             /\ UNCHANGED <<orders, orderItems>>

\* fetchOrders() after Promise.all: the items map replaces orderItems.
AfterItems(c) ==
    LET r == orderCalls[c]
    IN  /\ \A o \in DOMAIN r.items : r.items[o].stage = "replied"
        /\ orderItems' = [o \in DOMAIN r.items |-> r.items[o].data]
        /\ ordersLoading' = FALSE
        /\ orderCalls' = [orderCalls EXCEPT ![c] = OrderIdle]
        /\ UNCHANGED orders

\* The continuation of a suspended fetchOrders run.
ContinueOrders(c) ==
    /\ \/ /\ orderCalls[c].pc = "orders"
          /\ orderCalls[c].stage = "replied"
          /\ AfterOrders(c)
       \/ /\ orderCalls[c].pc = "items"
          /\ AfterItems(c)
    /\ UNCHANGED <<isOpen, orderRows, orderItemRows>>
    /\ UNCHANGED cartVars

----------------------------------------------------------------------------
(* The cart_items table: constraints and row level security.                *)

\* USING (auth.uid() = user_id), TO authenticated.
OwnRow(auth, r) == auth # NoUser /\ r.user_id = auth

\* InsertRow with the UNIQUE(user_id, product_id) constraint left out.
InsertRowNoUnique(table, id, auth, uid, p, q) ==
    IF auth # NoUser /\ uid = auth /\ q > 0 /\ p \in Products
    THEN [err |-> FALSE,
          table |-> table \cup {[id |-> id, user_id |-> uid, product_id |-> p, quantity |-> q]}]
    ELSE [err |-> TRUE, table |-> table]

\* insert({user_id, product_id, quantity}): WITH CHECK (auth.uid() = user_id),
\* CHECK (quantity > 0), product_id REFERENCES products, UNIQUE(user_id, product_id).
InsertRow(table, id, auth, uid, p, q) ==
    IF /\ auth # NoUser
       /\ uid = auth
       /\ q > 0
       /\ p \in Products
       /\ ~\E r \in table : r.user_id = uid /\ r.product_id = p
    THEN [err |-> FALSE,
          table |-> table \cup {[id |-> id, user_id |-> uid, product_id |-> p, quantity |-> q]}]
    ELSE [err |-> TRUE, table |-> table]

\* update({quantity}).eq('id', itemId): touches the caller's own rows only; a
\* touched row must keep CHECK (quantity > 0).
UpdateRows(table, auth, itemId, q) ==
    LET hit == {r \in table : r.id = itemId /\ OwnRow(auth, r)}
    IN  IF hit # {} /\ ~(q > 0)
        THEN [err |-> TRUE, table |-> table]
        ELSE [err |-> FALSE,
              table |-> (table \ hit) \cup {[r EXCEPT !.quantity = q] : r \in hit}]

\* delete().eq('id', itemId)
DeleteById(table, auth, itemId) ==
    [err |-> FALSE, table |-> {r \in table : ~(r.id = itemId /\ OwnRow(auth, r))}]

\* delete().eq('user_id', uid)
DeleteByUser(table, auth, uid) ==
    [err |-> FALSE, table |-> {r \in table : ~(r.user_id = uid /\ OwnRow(auth, r))}]

\* One row of select('*, products(*)'): the cart line joined with its product.
Joined(r) ==
    [id |-> r.id, user_id |-> r.user_id, product_id |-> r.product_id,
     quantity |-> r.quantity, products |-> <<[price |-> Price[r.product_id]]>>]

\* select('*, products(*)').eq('user_id', uid): the answers the layer can give.
SelectByUser(table, auth, uid) ==
    Orderings({Joined(r) : r \in {x \in table : x.user_id = uid /\ OwnRow(auth, x)}})

----------------------------------------------------------------------------
(* Calls in flight.                                                         *)

Idle ==
    [op |-> "none", pc |-> "idle", stage |-> "none", cuser |-> NoUser, auth |-> NoUser,
     product |-> NoProduct, itemId |-> 0, quantity |-> 0, err |-> FALSE, data |-> <<>>,
     result |-> "none"]

\* A call that has returned or thrown: its operation, its outcome, and whether
\* its last persistence call answered with an error.
Done(op, result, err) ==
    [Idle EXCEPT !.op = op, !.pc = "done", !.result = result, !.err = err]

\* A call suspended on a persistence call it has just issued.
Request(op, pc, cuser, auth, p, itemId, q) ==
    [Idle EXCEPT !.op = op, !.pc = pc, !.stage = "sent", !.cuser = cuser, !.auth = auth,
                 !.product = p, !.itemId = itemId, !.quantity = q]

\* A new call takes the lowest slot that was never used, else the lowest slot
\* whose call has finished.
Free(t) ==
    LET idle == {s \in Calls : tasks[s].pc = "idle"}
        done == {s \in Calls : tasks[s].pc = "done"}
    IN  IF idle # {} THEN t \in idle /\ \A s \in idle : t <= s
        ELSE t \in done /\ \A s \in done : t <= s

PendingInserts == {t \in Calls : tasks[t].pc = "insert" /\ tasks[t].stage = "sent"}

TypeOK ==
    /\ user \in Clients \cup {NoUser}
    /\ loading \in BOOLEAN
    /\ mounted \in BOOLEAN
    /\ nextId \in 1..(MaxId + 1)
    /\ \A r \in rows : r.id \in 1..MaxId /\ r.user_id \in Users /\ r.product_id \in Products
    /\ \A t \in Calls : tasks[t].pc \in {"idle", "insert", "update", "delete", "deleteAll",
                                         "select", "done"}

Init ==
    /\ user = NoUser
    /\ cartItems = <<>>
    /\ loading = TRUE
    /\ mounted = FALSE
    /\ rows = {[id |-> 1, user_id |-> "u2", product_id |-> "p1", quantity |-> 1]}
    /\ nextId = 2
    /\ tasks = [t \in Calls |-> Idle]
    /\ ret = [fn |-> "none", value |-> 0]
    /\ OrdersUnopened
    /\ orderRows = {}
    /\ orderItemRows = {}

----------------------------------------------------------------------------
(* The cart coordinator.                                                    *)

\* fetchCart without setLoading(true).
fetchCartNoLoading(t, op, u) ==
    IF u = NoUser
    THEN /\ cartItems' = <<>>
         /\ loading' = FALSE
         /\ tasks' = [tasks EXCEPT ![t] = Done(op, "ok", FALSE)]
    ELSE /\ tasks' = [tasks EXCEPT ![t] = Request(op, "select", u, user, NoProduct, 0, 0)]
         /\ UNCHANGED <<cartItems, loading>>

\* fetchCart() up to its await, run by call t for the identity u it closed over.
fetchCart(t, op, u) ==
    IF u = NoUser
    THEN /\ cartItems' = <<>>
         /\ loading' = FALSE
         /\ tasks' = [tasks EXCEPT ![t] = Done(op, "ok", FALSE)]
    ELSE /\ loading' = TRUE
         /\ tasks' = [tasks EXCEPT ![t] = Request(op, "select", u, user, NoProduct, 0, 0)]
         /\ UNCHANGED cartItems

\* removeFromCart(itemId) up to its await.
removeFromCart(t, op, itemId) ==
    /\ tasks' = [tasks EXCEPT ![t] = Request(op, "delete", user, user, NoProduct, itemId, 0)]
    /\ UNCHANGED <<cartItems, loading>>

\* updateQuantity without its quantity < 1 branch.
updateQuantityNoGuard(t, op, itemId, quantity) ==
    /\ tasks' = [tasks EXCEPT ![t] =
                    Request(op, "update", user, user, NoProduct, itemId, quantity)]
    /\ UNCHANGED <<cartItems, loading>>

\* updateQuantity(itemId, quantity) up to its await.
updateQuantity(t, op, itemId, quantity) ==
    IF quantity < 1
    THEN removeFromCart(t, op, itemId)
    ELSE /\ tasks' = [tasks EXCEPT ![t] =
                         Request(op, "update", user, user, NoProduct, itemId, quantity)]
         /\ UNCHANGED <<cartItems, loading>>

\* cartItems.find(item => item.product_id === productId): the index of the first
\* match, 0 when find returns undefined.
Find(items, productId) ==
    LET hits == {i \in 1..Len(items) : items[i].product_id = productId}
    IN  IF hits = {} THEN 0
        ELSE CHOOSE i \in hits : \A j \in hits : i <= j

\* addToCart without its identity check.
addToCartNoIdentityCheck(t, productId) ==
    LET found == Find(cartItems, productId)
        existingItem == cartItems[found]
    IN  IF found # 0
        THEN /\ existingItem.quantity + 1 <= MaxQty
             /\ updateQuantity(t, "addToCart", existingItem.id, existingItem.quantity + 1)
        ELSE /\ nextId + Cardinality(PendingInserts) <= MaxId
             /\ tasks' = [tasks EXCEPT ![t] =
                             Request("addToCart", "insert", user, user, productId, 0, 1)]
             /\ UNCHANGED <<cartItems, loading>>

\* addToCart(productId) up to its await or throw.
addToCart(t, productId) ==
    IF user = NoUser
    THEN /\ tasks' = [tasks EXCEPT ![t] = Done("addToCart", "AuthenticationRequired", FALSE)]
         /\ UNCHANGED <<cartItems, loading>>
    ELSE LET found == Find(cartItems, productId)
             existingItem == cartItems[found]
         IN  IF found # 0
             THEN /\ existingItem.quantity + 1 <= MaxQty
                  /\ updateQuantity(t, "addToCart", existingItem.id, existingItem.quantity + 1)
             ELSE /\ nextId + Cardinality(PendingInserts) <= MaxId
                  /\ tasks' = [tasks EXCEPT ![t] =
                                  Request("addToCart", "insert", user, user, productId, 0, 1)]
                  /\ UNCHANGED <<cartItems, loading>>

\* clearCart() up to its await.
clearCart(t) ==
    IF user = NoUser
    THEN /\ tasks' = [tasks EXCEPT ![t] = Done("clearCart", "ok", FALSE)]
         /\ UNCHANGED <<cartItems, loading>>
    ELSE /\ tasks' = [tasks EXCEPT ![t] =
                         Request("clearCart", "deleteAll", user, user, NoProduct, 0, 0)]
         /\ UNCHANGED <<cartItems, loading>>

\* The first render of CartProvider: the effect runs fetchCart for the initial
\* identity, which is none.
Mount ==
    /\ ~mounted
    /\ mounted' = TRUE
    /\ cartItems' = <<>>
    /\ loading' = FALSE
    /\ UNCHANGED <<user, rows, nextId, tasks, ret>>
    /\ UNCHANGED orderVars

\* Sign-in, sign-out or a change of identity: the effect on [user] runs fetchCart
\* with the new identity, and the effect of the Orders panel on [isOpen, user]
\* runs too.  Signing out starts no persistence call, so it takes no slot (t is
\* then fixed, to count the step once).
UserChanged(t, u) ==
    /\ mounted
    /\ u # user
    /\ user' = u
    /\ IF u = NoUser
       THEN /\ t = 1
            /\ cartItems' = <<>>
            /\ loading' = FALSE
            /\ UNCHANGED tasks
       ELSE /\ Free(t)
            /\ loading' = TRUE
            /\ tasks' = [tasks EXCEPT ![t] = Request("fetchCart", "select", u, u, NoProduct, 0, 0)]
            /\ UNCHANGED cartItems
    /\ OrdersEffect(isOpen, u)
    /\ UNCHANGED <<mounted, rows, nextId, ret>>
    /\ UNCHANGED <<isOpen, orderRows, orderItemRows>>

CallAddToCart(t, productId) ==
    /\ mounted
    /\ Free(t)
    /\ addToCart(t, productId)
    /\ UNCHANGED <<user, mounted, rows, nextId, ret>>
    /\ UNCHANGED orderVars

\* The Cart panel's minus, plus and trash buttons act on a line of the view; the
\* context also lets a caller pass any quantity.
CallUpdateQuantity(t, i, quantity) ==
    /\ mounted
    /\ Free(t)
    /\ i \in 1..Len(cartItems)
    /\ updateQuantity(t, "updateQuantity", cartItems[i].id, quantity)
    /\ UNCHANGED <<user, mounted, rows, nextId, ret>>
    /\ UNCHANGED orderVars

CallRemoveFromCart(t, i) ==
    /\ mounted
    /\ Free(t)
    /\ i \in 1..Len(cartItems)
    /\ removeFromCart(t, "removeFromCart", cartItems[i].id)
    /\ UNCHANGED <<user, mounted, rows, nextId, ret>>
    /\ UNCHANGED orderVars

CallClearCart(t) ==
    /\ mounted
    /\ Free(t)
    /\ clearCart(t)
    /\ UNCHANGED <<user, mounted, rows, nextId, ret>>
    /\ UNCHANGED orderVars

----------------------------------------------------------------------------
(* The persistence layer answers a request; the answer is an error value    *)
(* when the call fails (fail) or when a constraint or policy rejects it.    *)

Answer(t, err, data) == [tasks EXCEPT ![t].stage = "replied", ![t].err = err, ![t].data = data]

ServerReply(t, fail) ==
    LET c == tasks[t] IN
    /\ c.stage = "sent"
    /\ IF fail
       THEN /\ tasks' = Answer(t, TRUE, <<>>)
            /\ UNCHANGED <<rows, nextId>>
       ELSE CASE c.pc = "insert" ->
                   LET res == InsertRow(rows, nextId, c.auth, c.cuser, c.product, c.quantity)
                   IN  /\ rows' = res.table
                       /\ nextId' = IF res.err THEN nextId ELSE nextId + 1
                       /\ tasks' = Answer(t, res.err, <<>>)
              [] c.pc = "update" ->
                   LET res == UpdateRows(rows, c.auth, c.itemId, c.quantity)
                   IN  /\ rows' = res.table
                       /\ tasks' = Answer(t, res.err, <<>>)
                       /\ UNCHANGED nextId
              [] c.pc = "delete" ->
                   LET res == DeleteById(rows, c.auth, c.itemId)
                   IN  /\ rows' = res.table
                       /\ tasks' = Answer(t, res.err, <<>>)
                       /\ UNCHANGED nextId
              [] c.pc = "deleteAll" ->
                   LET res == DeleteByUser(rows, c.auth, c.cuser)
                   IN  /\ rows' = res.table
                       /\ tasks' = Answer(t, res.err, <<>>)
                       /\ UNCHANGED nextId
              [] c.pc = "select" ->
                   /\ \E d \in SelectByUser(rows, c.auth, c.cuser) :
                          tasks' = Answer(t, FALSE, d)
                   /\ UNCHANGED <<rows, nextId>>
    /\ UNCHANGED <<user, cartItems, loading, mounted, ret>>
    /\ UNCHANGED orderVars

----------------------------------------------------------------------------
(* The continuation of a call after its await.                              *)

\* AfterWrite with the error swallowed: the reload runs all the same.
AfterWriteSwallows(t) == fetchCart(t, tasks[t].op, tasks[t].cuser)

\* After the insert, update or delete of addToCart, updateQuantity, removeFromCart:
\* if (error) throw error; await fetchCart();
AfterWrite(t) ==
    LET c == tasks[t] IN
    IF c.err
    THEN /\ tasks' = [tasks EXCEPT ![t] = Done(c.op, "PersistenceError", TRUE)]
         /\ UNCHANGED <<cartItems, loading>>
    ELSE fetchCart(t, c.op, c.cuser)

\* AfterDeleteAll without setCartItems([]).
AfterDeleteAllKeepsView(t) ==
    LET c == tasks[t] IN
    /\ tasks' = [tasks EXCEPT ![t] =
                    IF c.err THEN Done(c.op, "PersistenceError", TRUE) ELSE Done(c.op, "ok", FALSE)]
    /\ UNCHANGED <<cartItems, loading>>

\* After the delete of clearCart: if (error) throw error; setCartItems([]);
AfterDeleteAll(t) ==
    LET c == tasks[t] IN
    IF c.err
    THEN /\ tasks' = [tasks EXCEPT ![t] = Done(c.op, "PersistenceError", TRUE)]
         /\ UNCHANGED <<cartItems, loading>>
    ELSE /\ cartItems' = <<>>
         /\ tasks' = [tasks EXCEPT ![t] = Done(c.op, "ok", FALSE)]
         /\ UNCHANGED loading

\* AfterSelect that drops the data it read.
AfterSelectKeepsView(t) ==
    LET c == tasks[t] IN
    /\ loading' = FALSE
    /\ tasks' = [tasks EXCEPT ![t] = Done(c.op, "ok", c.err)]
    /\ UNCHANGED cartItems

\* AfterSelect storing whatever came back, the empty result of a failed read too.
AfterSelectStoresAnyData(t) ==
    LET c == tasks[t] IN
    /\ cartItems' = c.data
    /\ loading' = FALSE
    /\ tasks' = [tasks EXCEPT ![t] = Done(c.op, "ok", c.err)]

\* After the select of fetchCart: if (!error && data) setCartItems(data); setLoading(false);
AfterSelect(t) ==
    LET c == tasks[t] IN
    /\ cartItems' = IF ~c.err THEN c.data ELSE cartItems
    /\ loading' = FALSE
    /\ tasks' = [tasks EXCEPT ![t] = Done(c.op, "ok", c.err)]

Continue(t) ==
    /\ tasks[t].stage = "replied"
    /\ CASE tasks[t].pc \in {"insert", "update", "delete"} -> AfterWrite(t)
         [] tasks[t].pc = "deleteAll" -> AfterDeleteAll(t)
         [] tasks[t].pc = "select" -> AfterSelect(t)
    /\ UNCHANGED <<user, mounted, rows, nextId, ret>>
    /\ UNCHANGED orderVars

\* getCartTotal(): cartItems.reduce((total, item) =>
\*     total + (item.products?.price || 0) * item.quantity, 0)
RECURSIVE reduceTotal(_, _, _)
reduceTotal(items, i, total) ==
    IF i > Len(items) THEN total
    ELSE LET item == items[i]
             price == IF Len(item.products) = 0 THEN 0 ELSE item.products[1].price
         IN  reduceTotal(items, i + 1, total + price * item.quantity)

\* getCartTotal adding the unit prices, the quantities forgotten.
getCartTotalUnitPrices(items) ==
    reduceTotal([i \in 1..Len(items) |-> [items[i] EXCEPT !.quantity = 1]], 1, 0)

getCartTotal(items) == reduceTotal(items, 1, 0)

\* getCartCount(): cartItems.reduce((count, item) => count + item.quantity, 0)
RECURSIVE reduceCount(_, _, _)
reduceCount(items, i, count) ==
    IF i > Len(items) THEN count
    ELSE reduceCount(items, i + 1, count + items[i].quantity)

getCartCount(items) == reduceCount(items, 1, 0)

CallGetCartTotal ==
    /\ ret' = [fn |-> "getCartTotal", value |-> getCartTotal(cartItems)]
    /\ UNCHANGED <<user, cartItems, loading, mounted, rows, nextId, tasks>>
    /\ UNCHANGED orderVars

CallGetCartCount ==
    /\ ret' = [fn |-> "getCartCount", value |-> getCartCount(cartItems)]
    /\ UNCHANGED <<user, cartItems, loading, mounted, rows, nextId, tasks>>
    /\ UNCHANGED orderVars

Next ==
    \/ Mount
    \/ \E t \in Calls, u \in Clients \cup {NoUser} : UserChanged(t, u)
    \/ \E t \in Calls, p \in Products : CallAddToCart(t, p)
    \/ \E t \in Calls, i \in 1..MaxId, q \in (0 - 1)..MaxQty : CallUpdateQuantity(t, i, q)
    \/ \E t \in Calls, i \in 1..MaxId : CallRemoveFromCart(t, i)
    \/ \E t \in Calls : CallClearCart(t)
    \/ \E t \in Calls, fail \in BOOLEAN : ServerReply(t, fail)
    \/ \E t \in Calls : Continue(t)

Spec == Init /\ [][Next]_vars

----------------------------------------------------------------------------
(* The folds over the view, on every view of at most MaxLines lines, with   *)
(* the product of a line present or missing.                                *)

FoldPrices == {0, 19999, 29999}

FoldLines ==
    [id : {1}, user_id : {"u1"}, product_id : {"p1"}, quantity : 1..MaxQty,
     products : {<<>>} \cup {<<[price |-> x]>> : x \in FoldPrices}]

RECURSIVE SeqsUpTo(_, _)
SeqsUpTo(S, n) ==
    IF n = 0 THEN {<<>>}
    ELSE LET shorter == SeqsUpTo(S, n - 1)
         IN  shorter \cup {Append(q, x) : q \in {z \in shorter : Len(z) = n - 1}, x \in S}

InitFold ==
    /\ user = "u1"
    /\ cartItems \in SeqsUpTo(FoldLines, MaxLines)
    /\ loading = FALSE
    /\ mounted = TRUE
    /\ rows = {}
    /\ nextId = 1
    /\ tasks = [t \in Calls |-> Idle]
    /\ ret = [fn |-> "none", value |-> 0]
    /\ OrdersUnopened
    /\ orderRows = {}
    /\ orderItemRows = {}

NextFold == CallGetCartTotal \/ CallGetCartCount

SpecFold == InitFold /\ [][NextFold]_vars

----------------------------------------------------------------------------
(* One signed-in identity whose settled cart does not hold the product, and *)
(* two addToCart calls for it, each made once, in any interleaving.  No     *)
(* write fails on its own; a reload may.                                    *)

InitTwoAdds ==
    /\ user = "u1"
    /\ cartItems = <<>>
    /\ loading = FALSE
    /\ mounted = TRUE
    /\ rows \in {{[id |-> 1, user_id |-> "u2", product_id |-> "p1", quantity |-> q]} :
                    q \in 1..MaxQty}
    /\ nextId = 2
    /\ tasks = [t \in Calls |-> Idle]
    /\ ret = [fn |-> "none", value |-> 0]
    /\ OrdersUnopened
    /\ orderRows = {}
    /\ orderItemRows = {}

NextTwoAdds ==
    \/ \E t \in Calls : tasks[t].pc = "idle" /\ CallAddToCart(t, "p1")
    \/ \E t \in Calls : ServerReply(t, FALSE)
    \/ \E t \in Calls : tasks[t].pc = "select" /\ ServerReply(t, TRUE)
    \/ \E t \in Calls : Continue(t)

SpecTwoAdds == InitTwoAdds /\ [][NextTwoAdds]_vars

----------------------------------------------------------------------------
(* The order history panel, opened and closed across sign-out and sign-in.   *)

\* The order history of u1, signed in at first: orders 1..MaxOrders - 1 may be
\* theirs, each with 1..MaxOrderItems items, and order MaxOrders is another
\* user's.  The reads of the cart that a sign-in starts are not answered here;
\* Spec follows them.
InitOrders ==
    /\ user = "u1"
    /\ cartItems = <<>>
    /\ loading = FALSE
    /\ mounted = TRUE
    /\ rows = {}
    /\ nextId = 1
    /\ tasks = [t \in Calls |-> Idle]
    /\ ret = [fn |-> "none", value |-> 0]
    /\ OrdersUnopened
    /\ orderRows \in {S \cup {OrderRow(MaxOrders, "u2")} :
                        S \in SUBSET {OrderRow(i, "u1") : i \in 1..(MaxOrders - 1)}}
    /\ orderItemRows \in
           {UNION {{OrderItemRow(o, k) : k \in 1..n[o.id]} : o \in orderRows} :
               n \in [1..MaxOrders -> 1..MaxOrderItems]}

NextOrders ==
    \/ OpenOrders
    \/ \E t \in Calls, u \in Clients \cup {NoUser} : UserChanged(t, u)
    \/ CloseOrders
    \/ \E c \in OrderCalls, fail \in BOOLEAN : OrdersReply(c, fail)
    \/ \E c \in OrderCalls, o \in 1..MaxOrders, fail \in BOOLEAN : ItemsReply(c, o, fail)
    \/ \E c \in OrderCalls : ContinueOrders(c)

SpecOrders == InitOrders /\ [][NextOrders]_vars

----------------------------------------------------------------------------
(* One user-initiated action at a time: a sign-in, sign-out or cart call    *)
(* starts only when no persistence call is pending.                         *)

NoneInFlight == \A t \in Calls : tasks[t].pc \in {"idle", "done"}

NextOneAtATime ==
    \/ Mount
    \/ \E t \in Calls, u \in Clients \cup {NoUser} : NoneInFlight /\ UserChanged(t, u)
    \/ \E t \in Calls, p \in Products : NoneInFlight /\ CallAddToCart(t, p)
    \/ \E t \in Calls, i \in 1..MaxId, q \in (0 - 1)..MaxQty :
          NoneInFlight /\ CallUpdateQuantity(t, i, q)
    \/ \E t \in Calls, i \in 1..MaxId : NoneInFlight /\ CallRemoveFromCart(t, i)
    \/ \E t \in Calls : NoneInFlight /\ CallClearCart(t)
    \/ \E t \in Calls, fail \in BOOLEAN : ServerReply(t, fail)
    \/ \E t \in Calls : Continue(t)

SpecOneAtATime == Init /\ [][NextOneAtATime]_vars

----------------------------------------------------------------------------
(* Two quick clicks: a signed-in user with one line in a settled cart       *)
(* starts two cart calls, each call slot used once, and every persistence   *)
(* call is answered without a failure of the layer.                         *)

InitRace ==
    /\ user = "u1"
    /\ rows \in {{[id |-> 1, user_id |-> "u2", product_id |-> "p1", quantity |-> 1],
                  [id |-> 2, user_id |-> "u1", product_id |-> "p1", quantity |-> q]} :
                    q \in 1..MaxQty}
    /\ cartItems \in SelectByUser(rows, "u1", "u1")
    /\ loading = FALSE
    /\ mounted = TRUE
    /\ nextId = 3
    /\ tasks = [t \in Calls |-> Idle]
    /\ ret = [fn |-> "none", value |-> 0]
    /\ OrdersUnopened
    /\ orderRows = {}
    /\ orderItemRows = {}

NextRace ==
    \/ \E t \in Calls, p \in Products : tasks[t].pc = "idle" /\ CallAddToCart(t, p)
    \/ \E t \in Calls, i \in 1..MaxId, q \in (0 - 1)..MaxQty :
          tasks[t].pc = "idle" /\ CallUpdateQuantity(t, i, q)
    \/ \E t \in Calls, i \in 1..MaxId : tasks[t].pc = "idle" /\ CallRemoveFromCart(t, i)
    \/ \E t \in Calls : ServerReply(t, FALSE)
    \/ \E t \in Calls : Continue(t)

SpecRace == InitRace /\ [][NextRace]_vars

----------------------------------------------------------------------------
(* Properties.                                                              *)

PersistedLines(u, p) == {r \in rows : r.user_id = u /\ r.product_id = p}

PersistedCart(u) == {r \in rows : r.user_id = u}

Others(t) == \A s \in Calls \ {t} : tasks'[s] = tasks[s]

\* C1: for an identity whose cart does not hold product p, once two addToCart(p)
\* calls have both finished, the persisted cart holds exactly one line for p and
\* its quantity is 2.
TwoAddsOneLineOfTwo ==
    (\A t \in Calls : tasks[t].pc = "done" /\ tasks[t].op = "addToCart")
        => /\ Cardinality(PersistedLines(user, "p1")) = 1
           /\ \A r \in PersistedLines(user, "p1") : r.quantity = 2

\* C2: whenever addToCart(p) is called with an identity present, it asks for the
\* persisted line of (identity, p) to be raised by exactly 1 when that line exists,
\* and for a new line of quantity 1 when it does not, whatever the view holds.
AddToCartFollowsPersistedLine ==
    [][\A t \in Calls, p \in Products :
          (user # NoUser /\ CallAddToCart(t, p))
              => IF PersistedLines(user, p) # {}
                 THEN \E r \in PersistedLines(user, p) :
                          /\ tasks'[t].pc = "update"
                          /\ tasks'[t].itemId = r.id
                          /\ tasks'[t].quantity = r.quantity + 1
                 ELSE /\ tasks'[t].pc = "insert"
                      /\ tasks'[t].product = p
                      /\ tasks'[t].quantity = 1]_vars

\* C3: updateQuantity(line, q) with q < 1 issues the delete that removeFromCart(line)
\* issues and the answered delete leaves no such line; no update ever carries a
\* quantity below 1; an answered updateQuantity(line, 1) leaves the line with
\* quantity exactly 1.
UpdateBelowOneRemoves ==
    [][/\ \A t \in Calls, i \in 1..Len(cartItems), q \in (0 - 1)..MaxQty :
            (tasks'[t] # tasks[t] /\ CallUpdateQuantity(t, i, q))
                => IF q < 1
                   THEN tasks'[t] = Request("updateQuantity", "delete", user, user,
                                            NoProduct, cartItems[i].id, 0)
                   ELSE tasks'[t].pc = "update" /\ tasks'[t].quantity = q
                                                /\ tasks'[t].itemId = cartItems[i].id
       /\ \A t \in Calls : tasks'[t].pc = "update" => tasks'[t].quantity >= 1
       /\ \A t \in Calls :
            (tasks[t].op = "updateQuantity" /\ tasks[t].pc = "delete" /\ ServerReply(t, FALSE))
                => /\ ~tasks'[t].err
                   /\ rows' = {r \in rows : ~(r.id = tasks[t].itemId /\ r.user_id = tasks[t].auth)}
       /\ \A t \in Calls :
            (tasks[t].pc = "update" /\ tasks[t].quantity = 1 /\ ServerReply(t, FALSE))
                => /\ ~tasks'[t].err
                   /\ \A r \in rows :
                        (r.id = tasks[t].itemId /\ r.user_id = tasks[t].auth)
                            => [r EXCEPT !.quantity = 1] \in rows'
                   /\ Cardinality(rows') = Cardinality(rows)]_vars

\* An updateQuantity below 1 has removed its line while an updateQuantity to 1 of
\* the same view line has been applied.
UpdateBelowOneRemovesWitness ==
    \E t, s \in Calls :
        /\ tasks[t].op = "updateQuantity" /\ tasks[t].pc = "delete"
        /\ tasks[t].stage = "replied" /\ ~tasks[t].err
        /\ tasks[t].auth = "u1"
        /\ ~\E r \in rows : r.id = tasks[t].itemId
        /\ tasks[s].op = "updateQuantity" /\ tasks[s].pc = "update"
        /\ tasks[s].quantity = 1 /\ tasks[s].stage = "replied" /\ ~tasks[s].err

\* C4: the answered delete of clearCart() leaves no line of that user and every
\* other user's lines as they were; its continuation empties the view; with no
\* identity clearCart() issues nothing and changes neither store nor view.
ClearCartFrame ==
    [][/\ \A t \in Calls :
            (user = NoUser /\ CallClearCart(t))
                => /\ tasks'[t] = Done("clearCart", "ok", FALSE)
                   /\ Others(t)
                   /\ UNCHANGED <<rows, cartItems, loading>>
       /\ \A t \in Calls :
            (tasks[t].pc = "deleteAll" /\ ServerReply(t, FALSE))
                => /\ ~tasks'[t].err
                   /\ PersistedCart(tasks[t].cuser)' = {}
                   /\ \A u \in Users \ {tasks[t].cuser} : PersistedCart(u)' = PersistedCart(u)
       /\ \A t \in Calls :
            (tasks[t].pc = "deleteAll" /\ ~tasks[t].err /\ Continue(t))
                => /\ cartItems' = <<>>
                   /\ tasks'[t] = Done("clearCart", "ok", FALSE)
                   /\ UNCHANGED rows]_vars

\* A clearCart() has deleted the lines of a user who had one, next to another
\* user's line.
ClearCartFrameWitness ==
    \E t \in Calls :
        /\ tasks[t].pc = "deleteAll" /\ tasks[t].stage = "replied" /\ ~tasks[t].err
        /\ tasks[t].cuser = "u1"
        /\ nextId > 2
        /\ Len(cartItems) = 1
        /\ PersistedCart("u1") = {}
        /\ PersistedCart("u2") # {}

\* C5: addToCart with no identity throws AuthenticationRequired, issues no
\* persistence call and leaves the view, the loading flag and the store alone.
AddToCartNeedsIdentity ==
    [][\A t \in Calls, p \in Products :
          (user = NoUser /\ CallAddToCart(t, p))
              => /\ tasks'[t] = Done("addToCart", "AuthenticationRequired", FALSE)
                 /\ Others(t)
                 /\ UNCHANGED <<cartItems, loading, rows, nextId>>]_vars

AddToCartNeedsIdentityWitness ==
    /\ user = NoUser
    /\ \E t \in Calls : tasks[t].op = "addToCart" /\ tasks[t].result = "AuthenticationRequired"

RECURSIVE SumFn(_, _)
SumFn(f, S) ==
    IF S = {} THEN 0
    ELSE LET i == CHOOSE x \in S : TRUE IN f[i] + SumFn(f, S \ {i})

LinePrice(item) == IF item.products = <<>> THEN 0 ELSE item.products[1].price

ViewTotal ==
    SumFn([i \in 1..Len(cartItems) |-> LinePrice(cartItems[i]) * cartItems[i].quantity],
          1..Len(cartItems))

ViewCount ==
    SumFn([i \in 1..Len(cartItems) |-> cartItems[i].quantity], 1..Len(cartItems))

ReturnedFoldIsSum ==
    /\ (ret.fn = "getCartTotal") => (ret.value = ViewTotal)
    /\ (ret.fn = "getCartCount") => (ret.value = ViewCount)
    /\ (ret.fn # "none" /\ cartItems = <<>>) => (ret.value = 0)

\* C6: getCartTotal() is the sum over the view's lines of price times quantity, a
\* missing price counting as zero; getCartCount() is the sum of the quantities;
\* both are 0 on the empty view and neither changes the view.
FoldsAreSums ==
    /\ []ReturnedFoldIsSum
    /\ [][(CallGetCartTotal \/ CallGetCartCount) => cartItems' = cartItems]_vars

\* The total of a view of two lines, one of them without a price.
FoldsAreSumsWitness ==
    /\ ret.fn = "getCartTotal"
    /\ Len(cartItems) = 2
    /\ cartItems[1].products = <<>>
    /\ cartItems[2].products # <<>>
    /\ cartItems[2].quantity = 2
    /\ ret.value = 2 * 29999

\* C7: every persisted line, every line of the view and every line a read
\* returned has quantity >= 1, and no update that would set a quantity below 1
\* is ever issued: such a request is a delete.
QuantityAtLeastOne ==
    /\ \A r \in rows : r.quantity >= 1
    /\ \A i \in 1..Len(cartItems) : cartItems[i].quantity >= 1
    /\ \A t \in Calls :
          /\ tasks[t].pc = "update" => tasks[t].quantity >= 1
          /\ \A i \in 1..Len(tasks[t].data) : tasks[t].data[i].quantity >= 1

\* The minus button on a line of quantity 1 has deleted the line.
QuantityAtLeastOneWitness ==
    \E t \in Calls :
        /\ tasks[t].op = "updateQuantity" /\ tasks[t].pc = "delete"
        /\ tasks[t].stage = "replied" /\ ~tasks[t].err
        /\ \E i \in 1..Len(cartItems) :
              cartItems[i].id = tasks[t].itemId /\ cartItems[i].quantity = 1
        /\ PersistedCart("u1") = {}

\* C8: the store, the view and every result of a read hold at most one line per
\* (user, product) pair.
OneLinePerUserAndProduct ==
    /\ \A r1, r2 \in rows :
          (r1.user_id = r2.user_id /\ r1.product_id = r2.product_id) => r1 = r2
    /\ \A i, j \in 1..Len(cartItems) :
          (cartItems[i].user_id = cartItems[j].user_id
              /\ cartItems[i].product_id = cartItems[j].product_id) => i = j
    /\ \A t \in Calls : \A i, j \in 1..Len(tasks[t].data) :
          (tasks[t].data[i].user_id = tasks[t].data[j].user_id
              /\ tasks[t].data[i].product_id = tasks[t].data[j].product_id) => i = j

\* Two addToCart calls for one product were in flight together: one insert was
\* accepted, the other rejected.
OneLinePerUserAndProductWitness ==
    \E t, s \in Calls :
        /\ tasks[t].op = "addToCart" /\ tasks[t].pc = "insert" /\ tasks[t].stage = "replied"
        /\ tasks[s].op = "addToCart" /\ tasks[s].pc = "insert" /\ tasks[s].stage = "replied"
        /\ tasks[t].product = tasks[s].product /\ tasks[t].cuser = tasks[s].cuser
        /\ ~tasks[t].err /\ tasks[s].err
        /\ Cardinality(PersistedLines(tasks[t].cuser, tasks[t].product)) = 1

\* C9: when the insert, update or delete of a mutating call answers with an
\* error, the call throws it, issues no reload and leaves the view alone.
PersistenceErrorIsRaised ==
    [][\A t \in Calls :
          (/\ tasks[t].pc \in {"insert", "update", "delete", "deleteAll"}
           /\ tasks[t].err
           /\ Continue(t))
              => /\ tasks'[t] = Done(tasks[t].op, "PersistenceError", TRUE)
                 /\ Others(t)
                 /\ UNCHANGED <<cartItems, loading, rows>>]_vars

\* A removeFromCart whose delete failed has thrown; the line is still persisted
\* and still in the view.
PersistenceErrorIsRaisedWitness ==
    \E t \in Calls :
        /\ tasks[t].pc = "done" /\ tasks[t].op = "removeFromCart"
        /\ tasks[t].result = "PersistenceError"
        /\ Len(cartItems) = 1
        /\ \E r \in rows : r.id = cartItems[1].id

\* C10: when the read of fetchCart answers with an error, the call ends without
\* error, the view keeps its contents and loading is false.
ReadFailureIsSilent ==
    [][\A t \in Calls :
          (tasks[t].pc = "select" /\ tasks[t].err /\ Continue(t))
              => /\ cartItems' = cartItems
                 /\ loading' = FALSE
                 /\ tasks'[t] = Done(tasks[t].op, "ok", TRUE)
                 /\ Others(t)]_vars

\* A removeFromCart whose delete succeeded and whose reload failed has returned:
\* the view still shows the deleted line.
ReadFailureIsSilentWitness ==
    \E t \in Calls :
        /\ tasks[t].pc = "done" /\ tasks[t].op = "removeFromCart"
        /\ tasks[t].result = "ok" /\ tasks[t].err
        /\ ~loading
        /\ user = "u1"
        /\ Len(cartItems) = 1
        /\ PersistedCart("u1") = {}

----------------------------------------------------------------------------
(* The order history panel.                                                 *)

\* C11: when the top-level orders read of fetchOrders fails, the run ends with
\* loading false and an empty list of orders, also when an earlier fetchOrders
\* had loaded orders into the view.
OrdersReadFailureEmptiesView ==
    [][\A c \in OrderCalls :
          (/\ orderCalls[c].pc = "orders"
           /\ orderCalls[c].stage = "replied"
           /\ orderCalls[c].err
           /\ ContinueOrders(c))
              => /\ ordersLoading' = FALSE
                 /\ orders' = <<>>]_vars

----------------------------------------------------------------------------
(* Ordering within and across actions.                                      *)

WriteOps == {"addToCart", "updateQuantity", "removeFromCart"}

\* C12: in an action that runs with no other action in flight, the reload is
\* issued only from the continuation of a write that was answered without error,
\* and when the reload that was answered without error completes, the view is
\* the persisted lines of the current identity, the write of the action among
\* them.
AloneReloadSeesWrite ==
    [][\A t \in Calls :
          /\ (tasks[t].pc \in {"insert", "update", "delete"} /\ tasks'[t].pc = "select")
                => /\ tasks[t].stage = "replied"
                   /\ ~tasks[t].err
                   /\ tasks'[t].stage = "sent"
          /\ (/\ tasks[t].pc = "select"
              /\ tasks[t].op \in WriteOps
              /\ ~tasks[t].err
              /\ Continue(t))
                => /\ tasks'[t] = Done(tasks[t].op, "ok", FALSE)
                   /\ cartItems' \in SelectByUser(rows', user', user')]_vars

\* An updateQuantity(line, 2) that ran alone has completed: the view shows the
\* one persisted line of u1 with quantity 2.
AloneReloadSeesWriteWitness ==
    \E t \in Calls :
        /\ tasks[t] = Done("updateQuantity", "ok", FALSE)
        /\ user = "u1"
        /\ Len(cartItems) = 1
        /\ cartItems[1].quantity = 2
        /\ cartItems \in SelectByUser(rows, user, user)

\* C13: with two mutate-then-reload actions in flight together, every reload
\* that completes replaces the view by what that reload read, whatever another
\* reload stored before it; so the last reload to complete wins, and the
\* witness is the state the claim says is reachable.
LastReloadWins ==
    [][\A t \in Calls :
          (/\ tasks[t].pc = "select"
           /\ tasks[t].op \in WriteOps
           /\ ~tasks[t].err
           /\ Continue(t))
              => /\ cartItems' = tasks[t].data
                 /\ tasks'[t] = Done(tasks[t].op, "ok", FALSE)]_vars

\* No persistence call is pending, both calls succeeded, the identity is still
\* u1, and the view differs from the persisted lines of u1.
LastReloadWinsWitness ==
    /\ \A t \in Calls : /\ tasks[t].pc = "done"
                        /\ tasks[t].op \in WriteOps
                        /\ tasks[t].result = "ok"
                        /\ ~tasks[t].err
    /\ user = "u1"
    /\ ~loading
    /\ cartItems \notin SelectByUser(rows, user, user)

----------------------------------------------------------------------------
(* The loading flag and the replacement of the view.                        *)

\* A call of the operations in ops completes successfully in this step.
Succeeds(t, ops) ==
    /\ tasks[t].pc \notin {"idle", "done"}
    /\ tasks'[t].pc = "done"
    /\ tasks'[t].result = "ok"
    /\ tasks'[t].op \in ops

\* C14: every addToCart, updateQuantity, removeFromCart and clearCart that
\* succeeds completes as the end of a full refetch, which sets loading to false,
\* and the view is only ever replaced by the complete result of one fetch.
EveryMutationRefetches ==
    [][/\ \A t \in Calls :
            Succeeds(t, WriteOps \cup {"clearCart"})
                => /\ tasks[t].pc = "select"
                   /\ loading' = FALSE
       /\ cartItems' # cartItems
            => \E t \in Calls : /\ tasks[t].pc = "select"
                                /\ cartItems' = tasks[t].data]_vars

\* C14, amended: for a call made with an identity, the continuation of an
\* answered write of addToCart, updateQuantity or removeFromCart sets loading to
\* true and sends the select of a full refetch, and the call succeeds only as
\* the end of that refetch, which sets loading to false; a successful clearCart
\* sends no select, leaves loading alone and empties the view; and the view is
\* only ever replaced by the complete result of one select or by the empty list.
WritesRefetchClearCartEmpties ==
    [][/\ \A t \in Calls :
            /\ (/\ tasks[t].pc \in {"insert", "update", "delete"}
                /\ ~tasks[t].err
                /\ tasks[t].cuser # NoUser
                /\ Continue(t))
                  => /\ loading' = TRUE
                     /\ tasks'[t].pc = "select"
                     /\ tasks'[t].stage = "sent"
                     /\ UNCHANGED cartItems
            /\ (tasks[t].cuser # NoUser /\ Succeeds(t, WriteOps))
                  => /\ tasks[t].pc = "select"
                     /\ loading' = FALSE
                     /\ cartItems' = IF tasks[t].err THEN cartItems ELSE tasks[t].data
            /\ (tasks[t].pc = "deleteAll" /\ ~tasks[t].err /\ Continue(t))
                  => /\ tasks'[t] = Done("clearCart", "ok", FALSE)
                     /\ cartItems' = <<>>
                     /\ UNCHANGED loading
       /\ cartItems' # cartItems
            => \/ cartItems' = <<>>
               \/ \E t \in Calls : /\ tasks[t].pc = "select"
                                   /\ tasks[t].stage = "replied"
                                   /\ ~tasks[t].err
                                   /\ cartItems' = tasks[t].data]_vars

\* A removeFromCart has succeeded through its refetch and a clearCart has
\* succeeded without one, for the signed-in u1.
WritesRefetchClearCartEmptiesWitness ==
    \E t, s \in Calls :
        /\ tasks[t] = Done("removeFromCart", "ok", FALSE)
        /\ tasks[s] = Done("clearCart", "ok", FALSE)
        /\ user = "u1"
        /\ ~loading
        /\ cartItems = <<>>

----------------------------------------------------------------------------
(* The view across identity changes.                                        *)

\* C15: across sign-in and sign-out with fetches in flight, every line of the
\* view is owned by the current identity, so the view is empty when no identity
\* is present, and a fetch started for a previous identity that completes later
\* puts none of that identity's lines into the view.
ViewOwnedByIdentity ==
    \A i \in 1..Len(cartItems) : cartItems[i].user_id = user

\* A fetchCart read that was sent and whose continuation has not run.
ReadPending == \E t \in Calls : tasks[t].pc = "select"

\* C16: in every state, with overlapping fetchCart calls too, a pending
\* fetchCart read implies loading = true, and once the provider has mounted and
\* no read is pending, loading is false.
LoadingIffReadPending ==
    /\ ReadPending => loading
    /\ (mounted /\ ~ReadPending) => ~loading

=============================================================================
